---- MODULE Spec2Model ----
(***************************************************************************)
(* A model of src/wise.py: the transcript pipeline of the WiseT service.   *)
(*                                                                         *)
(* A Python str is a sequence of one-character strings.  The accented      *)
(* letters are written with an ASCII mark after the letter, each still one *)
(* element of the sequence: "a~" is a-tilde, "o'" o-acute, "e'" e-acute,   *)
(* "i'" i-acute, "a'" a-acute, "c," c-cedilla (and "A~", "O'", "E'", "I'",  *)
(* "A'", "C," their capitals).                                             *)
(*                                                                         *)
(* A Python number is a record [float, v]: float tells an int from a       *)
(* float, v is the value (floats that occur here are whole after the       *)
(* floor divisions of format_timestamp, so v keeps the floor).  A quotient *)
(* that need not be whole (words per minute, the magic percentage, the     *)
(* duration in minutes) is a pair <<numerator, denominator>>.              *)
(***************************************************************************)
EXTENDS Integers, Sequences, FiniteSets, TLC

VARIABLES
    call,       \* the function call under way: [op |-> name, ...arguments]
    ret,        \* what the call returned, NoValue while it has not returned
    files,      \* the files of the upload folder: path |-> contents
    req,        \* the requests upload_audio is serving: its locals and position
    now         \* datetime.now(), in whole seconds

vars == <<call, ret, files, req, now>>

\* ret before the call has returned, and once it has returned value v
NoValue == [returned |-> FALSE]
Value(v) == [returned |-> TRUE, value |-> v]

\* no function is called on its own (the service is running)
NoCall == call = [op |-> "none"] /\ ret = NoValue

\* the requests that may be served at the same time
NumRequests == 2
Requests == 1..NumRequests

\* an upload folder without files, a request slot no client has used yet
NoFiles == [p \in {} |-> <<>>]
NoRequest == [pc |-> "idle"]

\* the service is not running (a function is called on its own)
NoService == files = NoFiles /\ req = [r \in Requests |-> NoRequest] /\ now = 0

-----------------------------------------------------------------------------
(* Characters and the str methods the source uses.                         *)

\* str.split(), str.strip() and the regex class \s: the whitespace characters
Whitespace == {" ", "\t", "\n", "\r"}

DigitChars == <<"0", "1", "2", "3", "4", "5", "6", "7", "8", "9">>

\* str(n) of an int n >= 0
RECURSIVE IntStr(_)
IntStr(n) ==
    IF n < 10 THEN <<DigitChars[n + 1]>>
    ELSE IntStr(n \div 10) \o <<DigitChars[(n % 10) + 1]>>

\* str(x) of a float x >= 0 with a whole value (below 1e16): "12.0"
FloatStr(n) == IntStr(n) \o <<".", "0">>

\* format(n, "02") of an int: at least two characters, padded with zeros
IntPad2(n) == IF n < 10 THEN <<"0">> \o IntStr(n) ELSE IntStr(n)

\* format(x, "02") of a float: its str is three characters or more already
FloatPad2(n) == FloatStr(n)

-----------------------------------------------------------------------------
(* format_timestamp, wise.py 81-85                                         *)

\* the hour-rollover slip: minutes taken modulo 60
format_timestamp_rollover(milliseconds) ==
    LET seconds0 == milliseconds.v \div 1000
        minutes  == (seconds0 \div 60) % 60
        seconds  == seconds0 % 60
    IN  <<"(">> \o IntStr(minutes) \o <<":">> \o IntPad2(seconds) \o <<")">>

format_timestamp(milliseconds) ==
    LET seconds0 == milliseconds.v \div 1000
        minutes  == seconds0 \div 60
        seconds  == seconds0 % 60
    IN  IF milliseconds.float
        THEN <<"(">> \o FloatStr(minutes) \o <<":">> \o FloatPad2(seconds) \o <<")">>
        ELSE <<"(">> \o IntStr(minutes) \o <<":">> \o IntPad2(seconds) \o <<")">>

\* bounds of the offsets tried: every whole second up to MaxSeconds, at the
\* start, just after the start and just before the end of the second
MaxSeconds == 3600
MsRemainders == {0, 1, 999}

TimestampCalls ==
    { [op |-> "format_timestamp", milliseconds |-> [float |-> f, v |-> s * 1000 + r]] :
        f \in BOOLEAN, s \in 0..MaxSeconds, r \in MsRemainders }

InitTimestamp == call \in TimestampCalls /\ ret = NoValue /\ NoService

FormatTimestamp ==
    /\ call.op = "format_timestamp"
    /\ ret = NoValue
    /\ ret' = Value(format_timestamp(call.milliseconds))
    /\ UNCHANGED <<call, files, req, now>>

NextTimestamp == FormatTimestamp

SpecTimestamp == InitTimestamp /\ [][NextTimestamp]_vars

\* the value of a string of decimal digits
RECURSIVE DigitsValue(_)
DigitsValue(s) ==
    IF s = <<>> THEN 0
    ELSE 10 * DigitsValue(SubSeq(s, 1, Len(s) - 1))
         + (CHOOSE d \in 0..9 : DigitChars[d + 1] = s[Len(s)])

IsDigits(s) == \A i \in 1..Len(s) : \E d \in 1..10 : DigitChars[d] = s[i]

Returned(op) == call.op = op /\ ret.returned

\* C1: for an int offset ms >= 0, format_timestamp(ms) is "(" M ":" SS ")" with
\* M the decimal digits of floor(ms/60000), no leading zero, and SS exactly two
\* digits of value floor(ms/1000) mod 60; minutes are not reduced modulo 60.
C1_TimestampFormat ==
    (Returned("format_timestamp") /\ ~call.milliseconds.float) =>
        LET ms == call.milliseconds.v
            r  == ret.value
            n  == Len(r)
            M  == SubSeq(r, 2, n - 4)
            SS == SubSeq(r, n - 2, n - 1)
        IN  /\ n >= 6
            /\ r[1] = "(" /\ r[n] = ")" /\ r[n - 3] = ":"
            /\ IsDigits(M) /\ IsDigits(SS)
            /\ (Len(M) > 1 => M[1] # "0")
            /\ DigitsValue(M) = ms \div 60000
            /\ DigitsValue(SS) = (ms \div 1000) % 60
            /\ (ms = 0 => r = <<"(", "0", ":", "0", "0", ")">>)
            /\ (ms = 61000 => r = <<"(", "1", ":", "0", "1", ")">>)
            /\ (ms = 3600000 => r = <<"(", "6", "0", ":", "0", "0", ")">>)

C1_Witness ==
    /\ Returned("format_timestamp")
    /\ call.milliseconds = [float |-> FALSE, v |-> 3600000]
    /\ ret.value = <<"(", "6", "0", ":", "0", "0", ")">>

-----------------------------------------------------------------------------
(* str.lower, str.split, str.strip                                         *)

UpperToLower ==
    [c \in {"A", "B", "C", "D", "E", "F", "G", "H", "I", "J", "K", "L", "M",
            "N", "O", "P", "Q", "R", "S", "T", "U", "V", "W", "X", "Y", "Z",
            "A~", "O'", "E'", "I'", "A'", "C,"} |->
        CASE c = "A" -> "a" [] c = "B" -> "b" [] c = "C" -> "c" [] c = "D" -> "d"
          [] c = "E" -> "e" [] c = "F" -> "f" [] c = "G" -> "g" [] c = "H" -> "h"
          [] c = "I" -> "i" [] c = "J" -> "j" [] c = "K" -> "k" [] c = "L" -> "l"
          [] c = "M" -> "m" [] c = "N" -> "n" [] c = "O" -> "o" [] c = "P" -> "p"
          [] c = "Q" -> "q" [] c = "R" -> "r" [] c = "S" -> "s" [] c = "T" -> "t"
          [] c = "U" -> "u" [] c = "V" -> "v" [] c = "W" -> "w" [] c = "X" -> "x"
          [] c = "Y" -> "y" [] c = "Z" -> "z" [] c = "A~" -> "a~" [] c = "O'" -> "o'"
          [] c = "E'" -> "e'" [] c = "I'" -> "i'" [] c = "A'" -> "a'" [] c = "C," -> "c,"]

LowerChar(c) == IF c \in DOMAIN UpperToLower THEN UpperToLower[c] ELSE c

\* text.lower()
Lower(text) == [i \in 1..Len(text) |-> LowerChar(text[i])]

\* text.split(): the maximal runs of characters that are not whitespace, in
\* the order of the text
Split(text) ==
    LET n      == Len(text)
        starts == {i \in 1..n : text[i] \notin Whitespace
                                 /\ (i = 1 \/ text[i - 1] \in Whitespace)}
        ends   == {i \in 1..n : text[i] \notin Whitespace
                                 /\ (i = n \/ text[i + 1] \in Whitespace)}
        Kth(set, k) == CHOOSE i \in set : Cardinality({j \in set : j <= i}) = k
    IN  [k \in 1..Cardinality(starts) |-> SubSeq(text, Kth(starts, k), Kth(ends, k))]

\* text.strip(): without its leading and trailing whitespace
Strip(text) ==
    LET inside == {i \in 1..Len(text) : text[i] \notin Whitespace}
    IN  IF inside = {} THEN <<>>
        ELSE SubSeq(text, CHOOSE i \in inside : \A j \in inside : i <= j,
                          CHOOSE i \in inside : \A j \in inside : i >= j)

-----------------------------------------------------------------------------
(* calcular_estatisticas, wise.py 15-19 and 26-40                          *)

MAGIC_WORDS == <<
    <<"o", "b", "r", "i", "g", "a", "d", "o">>,
    <<"o", "b", "r", "i", "g", "a", "d", "a">>,
    <<"p", "o", "r", " ", "f", "a", "v", "o", "r">>,
    <<"d", "e", "s", "c", "u", "l", "p", "a">>,
    <<"d", "e", "s", "c", "u", "l", "p", "e">>,
    <<"p", "o", "r", " ", "g", "e", "n", "t", "i", "l", "e", "z", "a">>,
    <<"b", "o", "m", " ", "d", "i", "a">>,
    <<"b", "o", "a", " ", "t", "a", "r", "d", "e">>,
    <<"b", "o", "a", " ", "n", "o", "i", "t", "e">>,
    <<"a", "g", "r", "a", "d", "e", "c,", "o">>,
    <<"a", "g", "r", "a", "d", "e", "c", "e">>,
    <<"g", "r", "a", "t", "i", "d", "a~", "o">>,
    <<"s", "i", "n", "t", "o", " ", "m", "u", "i", "t", "o">>,
    <<"p", "e", "r", "d", "a~", "o">>,
    <<"m", "e", " ", "p", "e", "r", "d", "o", "e">>,
    <<"c", "o", "m", " ", "l", "i", "c", "e", "n", "c,", "a">> >>

\* Counter(palavras): the (word, count) items of the dict, in insertion order,
\* which is the order of the words' first occurrences
RECURSIVE CounterFrom(_, _)
CounterFrom(palavras, items) ==
    IF palavras = <<>> THEN items
    ELSE LET w == Head(palavras)
             at == {i \in 1..Len(items) : items[i][1] = w}
         IN  CounterFrom(Tail(palavras),
                 IF at = {} THEN Append(items, <<w, 1>>)
                 ELSE [i \in 1..Len(items) |->
                          IF i \in at THEN <<w, items[i][2] + 1>> ELSE items[i]])

Counter(palavras) == CounterFrom(palavras, <<>>)

\* contagem[palavra]: a Counter gives 0 for a missing key
CounterGet(contagem, palavra) ==
    LET at == {i \in 1..Len(contagem) : contagem[i][1] = palavra}
    IN  IF at = {} THEN 0 ELSE contagem[CHOOSE i \in at : TRUE][2]

\* a sort that puts an item before the items of equal count already placed
RECURSIVE most_common_unstable(_)
most_common_unstable(items) ==
    IF items = <<>> THEN <<>>
    ELSE LET rest == most_common_unstable(SubSeq(items, 1, Len(items) - 1))
             x    == items[Len(items)]
             k    == Cardinality({i \in 1..Len(rest) : rest[i][2] > x[2]})
         IN  SubSeq(rest, 1, k) \o <<x>> \o SubSeq(rest, k + 1, Len(rest))

\* Counter.most_common(): sorted(items, key=count, reverse=True), a stable sort,
\* so items of equal count keep their insertion order
RECURSIVE most_common(_)
most_common(items) ==
    IF items = <<>> THEN <<>>
    ELSE LET rest == most_common(SubSeq(items, 1, Len(items) - 1))
             x    == items[Len(items)]
             k    == Cardinality({i \in 1..Len(rest) : rest[i][2] >= x[2]})
         IN  SubSeq(rest, 1, k) \o <<x>> \o SubSeq(rest, k + 1, Len(rest))

RECURSIVE SumSeq(_)
SumSeq(s) == IF s = <<>> THEN 0 ELSE Head(s) + SumSeq(Tail(s))

\* a phrase-aware count: an entry scores the count of its first word
total_magicas_phrases(contagem) ==
    SumSeq([i \in 1..Len(MAGIC_WORDS) |->
               CounterGet(contagem, Split(MAGIC_WORDS[i])[1])])

\* sum(contagem_palavras[palavra] for palavra in MAGIC_WORDS)
total_magicas(contagem) ==
    SumSeq([i \in 1..Len(MAGIC_WORDS) |-> CounterGet(contagem, MAGIC_WORDS[i])])

ZeroDivisionError == [raised |-> "ZeroDivisionError"]

\* a / (n/d) for an int a and a quotient n/d with d > 0 and n # 0: a float.
\* A quotient <<n, d, f>> is the number n/d, a float when f and an int otherwise.
DivideBy(a, q) ==
    IF q[1] > 0 THEN <<a * q[2], q[1], TRUE>> ELSE <<-(a * q[2]), -q[1], TRUE>>

\* total_palavras / duracao_minutos (line 29), for duracao_minutos # 0
palavras_por_minuto(total_palavras, duracao_minutos) ==
    DivideBy(total_palavras, duracao_minutos)

\* (total_magicas / total_palavras) * 100 if total_palavras > 0 else 0 (line 33)
percentual_magicas(magicas, total_palavras) ==
    IF total_palavras > 0 THEN <<magicas * 100, total_palavras, TRUE>> ELSE <<0, 1, FALSE>>

calcular_estatisticas(texto, duracao_minutos) ==
    LET palavras       == Split(Lower(texto))
        total_palavras == Len(palavras)
        contagem       == Counter(palavras)
    IN  IF duracao_minutos[1] = 0 THEN ZeroDivisionError
        ELSE [ total_palavras      |-> total_palavras,
               palavras_por_minuto |-> palavras_por_minuto(total_palavras, duracao_minutos),
               palavras_ordenadas  |-> most_common(contagem),
               percentual_magicas  |->
                   percentual_magicas(total_magicas(contagem), total_palavras) ]

Raised(r) == "raised" \in DOMAIN r

\* the texts tried: up to MaxPieces pieces of a list, one after the other
RECURSIVE Concat(_)
Concat(ss) == IF ss = <<>> THEN <<>> ELSE Head(ss) \o Concat(Tail(ss))

MaxPieces == 4

TextsOf(pieces) ==
    { Concat([i \in 1..Len(f) |-> pieces[f[i]]]) :
        f \in UNION { [1..m -> 1..Len(pieces)] : m \in 0..MaxPieces } }

StatsPieces == <<
    <<"o", "b", "r", "i", "g", "a", "d", "o", " ">>,
    <<"O", "b", "r", "i", "g", "a", "d", "o">>,
    <<"p", "o", "r", " ", "f", "a", "v", "o", "r", " ">>,
    <<"t", "e", "s", "t", "e", " ">>,
    <<"d", "e", "s", "c", "u", "l", "p", "a", "\n">>,
    <<" ">> >>

\* the durations tried, in minutes: -1, 0, 1/2, 1, 2
Duracoes == {<<-1, 1, TRUE>>, <<0, 1, TRUE>>, <<1, 2, TRUE>>, <<1, 1, TRUE>>, <<2, 1, TRUE>>}

StatsCalls ==
    { [op |-> "calcular_estatisticas", texto |-> t, duracao_minutos |-> d] :
        t \in TextsOf(StatsPieces), d \in Duracoes }

InitStats == call \in StatsCalls /\ ret = NoValue /\ NoService

CalcularEstatisticas ==
    /\ call.op = "calcular_estatisticas"
    /\ ret = NoValue
    /\ ret' = Value(calcular_estatisticas(call.texto, call.duracao_minutos))
    /\ UNCHANGED <<call, files, req, now>>

NextStats == CalcularEstatisticas

SpecStats == InitStats /\ [][NextStats]_vars

\* the statistics a call has returned (it did not raise)
ReturnedStats == Returned("calcular_estatisticas") /\ ~Raised(ret.value)

\* the number of places of a sequence that hold an element of a set
CountIn(s, set) == Cardinality({i \in 1..Len(s) : s[i] \in set})

FirstIndex(s, x) == CHOOSE i \in 1..Len(s) : s[i] = x /\ \A j \in 1..(i - 1) : s[j] # x

\* a/b = c/d
QuotientEq(p, q) == p[1] * q[2] = q[1] * p[2]

\* C3: palavras_ordenadas holds each distinct lowercase token once with its number
\* of occurrences, counts never increase along it, and of two tokens with equal
\* counts the one first seen earlier in the text comes first.
C3_FrequencyOrder ==
    ReturnedStats =>
        LET tokens == Split(Lower(call.texto))
            po     == ret.value.palavras_ordenadas
        IN  /\ {po[i][1] : i \in 1..Len(po)} = {tokens[j] : j \in 1..Len(tokens)}
            /\ \A i, j \in 1..Len(po) : po[i][1] = po[j][1] => i = j
            /\ \A i \in 1..Len(po) : po[i][2] = CountIn(tokens, {po[i][1]})
            /\ \A i, j \in 1..Len(po) : i < j =>
                   \/ po[i][2] > po[j][2]
                   \/ /\ po[i][2] = po[j][2]
                      /\ FirstIndex(tokens, po[i][1]) < FirstIndex(tokens, po[j][1])

\* two tokens tie and a later token outranks both
C3_Witness ==
    /\ ReturnedStats
    /\ LET po == ret.value.palavras_ordenadas
       IN  /\ Len(po) = 3
           /\ po[1][2] = 2 /\ po[2][2] = 1 /\ po[3][2] = 1
           /\ Split(Lower(call.texto))[1] = po[2][1]

SingleWordMagic == {MAGIC_WORDS[i] : i \in {k \in 1..Len(MAGIC_WORDS) :
                        \A c \in 1..Len(MAGIC_WORDS[k]) : MAGIC_WORDS[k][c] \notin Whitespace}}

ObrigadoObrigadoTeste ==
    << <<"o", "b", "r", "i", "g", "a", "d", "o">>, <<"o", "b", "r", "i", "g", "a", "d", "o">>,
       <<"t", "e", "s", "t", "e">> >>

\* C4: with total_palavras > 0, percentual_magicas is 100 * k / total_palavras, k
\* the number of tokens equal to an entry of MAGIC_WORDS without a space; an entry
\* with a space adds nothing ("obrigado obrigado teste" gives 200/3).
C4_MagicPercentage ==
    (ReturnedStats /\ ret.value.total_palavras > 0) =>
        LET tokens == Split(Lower(call.texto))
            k      == CountIn(tokens, SingleWordMagic)
        IN  /\ ret.value.total_palavras = Len(tokens)
            /\ QuotientEq(ret.value.percentual_magicas, <<100 * k, Len(tokens)>>)
            /\ (tokens = ObrigadoObrigadoTeste =>
                   QuotientEq(ret.value.percentual_magicas, <<200, 3>>))

\* "por favor" occurs in the text beside a counted magic word
C4_Witness ==
    /\ ReturnedStats
    /\ ret.value.total_palavras = 4
    /\ QuotientEq(ret.value.percentual_magicas, <<100, 4>>)
    /\ LET tokens == Split(Lower(call.texto))
       IN  \E i \in 1..3 : tokens[i] = <<"p", "o", "r">> /\ tokens[i + 1] = <<"f", "a", "v", "o", "r">>

\* C7: for a text without words and any duration, calcular_estatisticas returns
\* (it does not raise) a rate of 0, a percentage of 0 and an empty table.
C7_EmptyTranscript ==
    (Returned("calcular_estatisticas") /\ Split(call.texto) = <<>>) =>
        /\ ~Raised(ret.value)
        /\ ret.value.total_palavras = 0
        /\ ret.value.palavras_por_minuto[1] = 0
        /\ ret.value.percentual_magicas[1] = 0
        /\ ret.value.palavras_ordenadas = <<>>

-----------------------------------------------------------------------------
(* analisar_sentimento, wise.py 42-55                                      *)

positive_words == <<
    <<"b", "o", "m">>,
    <<"o'", "t", "i", "m", "o">>,
    <<"e", "x", "c", "e", "l", "e", "n", "t", "e">>,
    <<"s", "a", "t", "i", "s", "f", "e", "i", "t", "o">>,
    <<"m", "a", "r", "a", "v", "i", "l", "h", "o", "s", "o">> >>

negative_words == <<
    <<"r", "u", "i", "m">>,
    <<"p", "e'", "s", "s", "i", "m", "o">>,
    <<"h", "o", "r", "r", "i'", "v", "e", "l">>,
    <<"i", "n", "s", "a", "t", "i", "s", "f", "e", "i", "t", "o">>,
    <<"t", "e", "r", "r", "i'", "v", "e", "l">> >>

\* word in words, for a list
InList(word, words) == \E i \in 1..Len(words) : words[i] = word

\* sum(1 for word in text.lower().split() if word in words)
RECURSIVE CountWordsIn(_, _)
CountWordsIn(tokens, words) ==
    IF tokens = <<>> THEN 0
    ELSE (IF InList(Head(tokens), words) THEN 1 ELSE 0) + CountWordsIn(Tail(tokens), words)

\* a tie read as satisfied: >= where the source has >
analisar_sentimento_tie(transcribed_text) ==
    LET positive_count == CountWordsIn(Split(Lower(transcribed_text)), positive_words)
        negative_count == CountWordsIn(Split(Lower(transcribed_text)), negative_words)
    IN  IF positive_count >= negative_count THEN "Satisfeito"
        ELSE IF negative_count > positive_count THEN "Insatisfeito"
        ELSE "Neutro"

analisar_sentimento(transcribed_text) ==
    LET positive_count == CountWordsIn(Split(Lower(transcribed_text)), positive_words)
        negative_count == CountWordsIn(Split(Lower(transcribed_text)), negative_words)
    IN  IF positive_count > negative_count THEN "Satisfeito"
        ELSE IF negative_count > positive_count THEN "Insatisfeito"
        ELSE "Neutro"

SentimentPieces == <<
    <<"o", " ", "a", "t", "e", "n", "d", "i", "m", "e", "n", "t", "o", " ", "f", "o", "i", " ">>,
    <<"o'", "t", "i", "m", "o", " ">>,
    <<"e", " ">>,
    <<"e", "x", "c", "e", "l", "e", "n", "t", "e">>,
    <<"P", "e'", "s", "s", "i", "m", "o">>,
    <<"n", "o", "r", "m", "a", "l">>,
    <<"r", "u", "i", "m", " ">>,
    <<"B", "o", "m", "\n">> >>

SentimentCalls ==
    { [op |-> "analisar_sentimento", transcribed_text |-> t] : t \in TextsOf(SentimentPieces) }

InitSentiment == call \in SentimentCalls /\ ret = NoValue /\ NoService

AnalisarSentimento ==
    /\ call.op = "analisar_sentimento"
    /\ ret = NoValue
    /\ ret' = Value(analisar_sentimento(call.transcribed_text))
    /\ UNCHANGED <<call, files, req, now>>

NextSentiment == AnalisarSentimento

SpecSentiment == InitSentiment /\ [][NextSentiment]_vars

PositiveSet == {positive_words[i] : i \in 1..Len(positive_words)}
NegativeSet == {negative_words[i] : i \in 1..Len(negative_words)}

OAtendimentoFoi(word) ==
    <<"o", " ", "a", "t", "e", "n", "d", "i", "m", "e", "n", "t", "o", " ", "f", "o", "i", " ">>
    \o word

\* C5: with p and n the numbers of lowercase whitespace-split tokens equal to a
\* positive and to a negative keyword, the label is Satisfeito iff p > n,
\* Insatisfeito iff n > p and Neutro iff p = n; it is always one of the three.
C5_SentimentRule ==
    Returned("analisar_sentimento") =>
        LET tokens == Split(Lower(call.transcribed_text))
            p      == CountIn(tokens, PositiveSet)
            n      == CountIn(tokens, NegativeSet)
        IN  /\ ret.value \in {"Satisfeito", "Insatisfeito", "Neutro"}
            /\ (ret.value = "Satisfeito" <=> p > n)
            /\ (ret.value = "Insatisfeito" <=> n > p)
            /\ (ret.value = "Neutro" <=> p = n)
            /\ (call.transcribed_text =
                    OAtendimentoFoi(<<"o'", "t", "i", "m", "o", " ", "e", " ",
                                      "e", "x", "c", "e", "l", "e", "n", "t", "e">>)
                  => ret.value = "Satisfeito")
            /\ (call.transcribed_text = OAtendimentoFoi(<<"P", "e'", "s", "s", "i", "m", "o">>)
                  => ret.value = "Insatisfeito")
            /\ (call.transcribed_text = OAtendimentoFoi(<<"n", "o", "r", "m", "a", "l">>)
                  => ret.value = "Neutro")

\* a tie of one positive and one negative keyword gives Neutro
C5_Witness ==
    /\ Returned("analisar_sentimento")
    /\ ret.value = "Neutro"
    /\ CountIn(Split(Lower(call.transcribed_text)), PositiveSet) = 1
    /\ CountIn(Split(Lower(call.transcribed_text)), NegativeSet) = 1

-----------------------------------------------------------------------------
(* clean_transcription, wise.py 21-24                                      *)

\* the regex class \w: letters, digits and the underscore
WordChars ==
    {"a", "b", "c", "d", "e", "f", "g", "h", "i", "j", "k", "l", "m", "n", "o", "p", "q",
     "r", "s", "t", "u", "v", "w", "x", "y", "z", "a~", "o'", "e'", "i'", "a'", "c,", "_"}
    \cup DOMAIN UpperToLower
    \cup {DigitChars[d] : d \in 1..10}

\* re.sub(r'\s+', ' ', text): every maximal run of whitespace becomes one space
RECURSIVE CollapseFrom(_, _, _)
CollapseFrom(text, inRun, out) ==
    IF text = <<>> THEN out
    ELSE IF Head(text) \in Whitespace
         THEN CollapseFrom(Tail(text), TRUE, IF inRun THEN out ELSE Append(out, " "))
         ELSE CollapseFrom(Tail(text), FALSE, Append(out, Head(text)))

CollapseWhitespace(text) == CollapseFrom(text, FALSE, <<>>)

\* the regex assertion \b between text[i] and text[i + 1] (i = 0 is the start of
\* the text, i = Len(text) its end): a word character on exactly one side
WordBoundary(text, i) ==
    (i >= 1 /\ text[i] \in WordChars) # (i < Len(text) /\ text[i + 1] \in WordChars)

Entao == <<"e", "n", "t", "a~", "o">>

\* the length of the match of \b(e|ent\~ao)\b starting at text[i], case ignored;
\* 0 when there is none.  The alternative "e" is tried first.
ConnectorAt(text, i) ==
    IF ~WordBoundary(text, i - 1) THEN 0
    ELSE IF LowerChar(text[i]) = "e" /\ WordBoundary(text, i) THEN 1
    ELSE IF /\ i + 4 <= Len(text)
            /\ Lower(SubSeq(text, i, i + 4)) = Entao
            /\ WordBoundary(text, i + 4) THEN 5
    ELSE 0

\* re.sub(r'\b(e|ent\~ao)\b', r', \1', text, flags=re.IGNORECASE): left to right,
\* each match replaced by a comma, a space and the match itself
RECURSIVE InsertCommasFrom(_, _, _)
InsertCommasFrom(text, i, out) ==
    IF i > Len(text) THEN out
    ELSE LET n == ConnectorAt(text, i)
         IN  IF n > 0
             THEN InsertCommasFrom(text, i + n, out \o <<",", " ">> \o SubSeq(text, i, i + n - 1))
             ELSE InsertCommasFrom(text, i + 1, Append(out, text[i]))

InsertCommas(text) == InsertCommasFrom(text, 1, <<>>)

clean_transcription(text) == Strip(InsertCommas(CollapseWhitespace(text)))

CleanPieces == <<
    <<"e">>, <<"E">>, <<"e", "n", "t", "a~", "o">>, <<"a">>, <<" ">>, <<"\n">>, <<",">> >>

\* how many times in a row clean_transcription is applied to its own result
MaxApplications == 2

\* call.cleaned tells that call.text is itself a result of clean_transcription,
\* and call.n how many applications this one makes
CleanCalls ==
    { [op |-> "clean_transcription", text |-> t, n |-> 1, cleaned |-> FALSE] :
        t \in TextsOf(CleanPieces) }

InitClean == call \in CleanCalls /\ ret = NoValue /\ NoService

CleanTranscription ==
    /\ call.op = "clean_transcription"
    /\ ret = NoValue
    /\ ret' = Value(clean_transcription(call.text))
    /\ UNCHANGED <<call, files, req, now>>

\* the result is normalized again
CleanAgain ==
    /\ call.op = "clean_transcription"
    /\ ret.returned
    /\ call.n < MaxApplications
    /\ call' = [op |-> "clean_transcription", text |-> ret.value, n |-> call.n + 1,
                cleaned |-> TRUE]
    /\ ret' = Value(clean_transcription(ret.value))
    /\ UNCHANGED <<files, req, now>>

NextClean == CleanTranscription \/ CleanAgain

SpecClean == InitClean /\ [][NextClean]_vars

\* C9: clean_transcription of a text that clean_transcription returned is that
\* text again, and a result has no whitespace at its start or at its end.
C9_CleanIdempotentTrimmed ==
    Returned("clean_transcription") =>
        /\ (call.cleaned => ret.value = call.text)
        /\ (ret.value # <<>> =>
               ret.value[1] \notin Whitespace /\ ret.value[Len(ret.value)] \notin Whitespace)

-----------------------------------------------------------------------------
(* format_transcription, wise.py 87-93                                     *)

\* A segment is [start, text]: start is Whisper's start in seconds, a float, kept
\* as [float, milli] with milli the number of milliseconds, so that
\* segment['start'] * 1000 is the number below.
Times1000(start) == [float |-> start.float, v |-> start.milli]

\* the loop without the timestamps: only the stripped texts are joined
RECURSIVE FormattedTextNoTimestamps(_)
FormattedTextNoTimestamps(transcribed_segments) ==
    IF transcribed_segments = <<>> THEN <<>>
    ELSE Strip(Head(transcribed_segments).text) \o <<"\n", "\n">>
         \o FormattedTextNoTimestamps(Tail(transcribed_segments))

\* formatted_text after the loop over the segments, before the final strip
RECURSIVE FormattedText(_)
FormattedText(transcribed_segments) ==
    IF transcribed_segments = <<>> THEN <<>>
    ELSE LET segment       == Head(transcribed_segments)
             timestamp     == format_timestamp(Times1000(segment.start))
             transcription == Strip(segment.text)
         IN  timestamp \o <<" ">> \o transcription \o <<"\n", "\n">>
             \o FormattedText(Tail(transcribed_segments))

format_transcription(transcribed_segments) == Strip(FormattedText(transcribed_segments))

-----------------------------------------------------------------------------
(* generate_csv, wise.py 61-79, and the csv module's writer it drives      *)

RECURSIVE Gcd(_, _)
Gcd(a, b) == IF b = 0 THEN a ELSE Gcd(b, a % b)

\* str(x) of a number of the statistics.  An int is its digits.  A float is its
\* whole part, a point and its decimals: "0" when it is whole; otherwise the
\* decimals (repr's shortest round-trip digits) are kept as one element that names
\* the fraction, remainder over divisor in lowest terms.
QuotientStr(q) ==
    LET n     == IF q[1] < 0 THEN -q[1] ELSE q[1]
        whole == n \div q[2]
        r     == n % q[2]
        g     == Gcd(r, q[2])
    IN  IF ~q[3] THEN IntStr(q[1])
        ELSE (IF q[1] < 0 THEN <<"-">> ELSE <<>>) \o IntStr(whole) \o <<".">>
             \o (IF r = 0 THEN <<"0">> ELSE <<ToString(<<r \div g, q[2] \div g>>)>>)

\* the csv writer's field for a value: a value is [s |-> str], [i |-> int] or
\* [q |-> quotient]; a number is written as its str
FieldStr(value) ==
    IF "s" \in DOMAIN value THEN value.s
    ELSE IF "i" \in DOMAIN value THEN IntStr(value.i)
    ELSE QuotientStr(value.q)

\* the excel dialect, QUOTE_MINIMAL: a field with the delimiter, the quote
\* character or a character of the line terminator is quoted, its quotes doubled
CsvSpecial == {",", "\"", "\r", "\n"}

RECURSIVE DoubleQuotes(_)
DoubleQuotes(s) ==
    IF s = <<>> THEN <<>>
    ELSE (IF Head(s) = "\"" THEN <<"\"", "\"">> ELSE <<Head(s)>>) \o DoubleQuotes(Tail(s))

CsvField(s) ==
    IF \E i \in 1..Len(s) : s[i] \in CsvSpecial
    THEN <<"\"">> \o DoubleQuotes(s) \o <<"\"">>
    ELSE s

\* writer.writerow(fields): the fields, commas between them, then "\r\n"
RECURSIVE CsvJoin(_)
CsvJoin(fields) ==
    IF Len(fields) = 1 THEN CsvField(fields[1])
    ELSE CsvField(Head(fields)) \o <<",">> \o CsvJoin(Tail(fields))

CsvLine(fields) == CsvJoin(fields) \o <<"\r", "\n">>

fieldnames == << "timestamp", "transcription" >>

\* DictWriter.writerow(rowdict): the values by fieldnames, "" for a missing key
DictRow(rowdict) ==
    CsvLine([k \in 1..Len(fieldnames) |->
                IF fieldnames[k] \in DOMAIN rowdict THEN FieldStr(rowdict[fieldnames[k]])
                ELSE <<>>])

HeaderTimestamp == <<"t", "i", "m", "e", "s", "t", "a", "m", "p">>
HeaderTranscription == <<"t", "r", "a", "n", "s", "c", "r", "i", "p", "t", "i", "o", "n">>

\* DictWriter.writeheader(): the row of the field names
HeaderRow == CsvLine(<<HeaderTimestamp, HeaderTranscription>>)

LabelEstatisticas == <<"E", "s", "t", "a", "t", "i'", "s", "t", "i", "c", "a", "s">>
LabelTotal ==
    <<"T", "o", "t", "a", "l", " ", "d", "e", " ", "p", "a", "l", "a", "v", "r", "a", "s">>
LabelPorMinuto ==
    <<"P", "a", "l", "a", "v", "r", "a", "s", " ", "p", "o", "r", " ", "m", "i", "n", "u",
      "t", "o">>
LabelPercentual ==
    <<"P", "e", "r", "c", "e", "n", "t", "u", "a", "l", " ", "d", "e", " ", "p", "a", "l",
      "a", "v", "r", "a", "s", " ", "m", "a'", "g", "i", "c", "a", "s">>

\* the segment rows with the text as it came, not stripped
RECURSIVE SegmentRowsUnstripped(_)
SegmentRowsUnstripped(transcribed_segments) ==
    IF transcribed_segments = <<>> THEN <<>>
    ELSE LET segment   == Head(transcribed_segments)
             timestamp == format_timestamp(Times1000(segment.start))
         IN  DictRow([timestamp |-> [s |-> timestamp], transcription |-> [s |-> segment.text]])
             \o SegmentRowsUnstripped(Tail(transcribed_segments))

\* lines 67-70: one row per segment
RECURSIVE SegmentRows(_)
SegmentRows(transcribed_segments) ==
    IF transcribed_segments = <<>> THEN <<>>
    ELSE LET segment       == Head(transcribed_segments)
             timestamp     == format_timestamp(Times1000(segment.start))
             transcription == Strip(segment.text)
         IN  DictRow([timestamp |-> [s |-> timestamp], transcription |-> [s |-> transcription]])
             \o SegmentRows(Tail(transcribed_segments))

\* lines 72-76: the blank row and the statistics block
StatisticsRows(estatisticas) ==
    DictRow(<<>>)
    \o DictRow([timestamp |-> [s |-> LabelEstatisticas], transcription |-> [s |-> <<>>]])
    \o DictRow([timestamp |-> [s |-> LabelTotal],
                transcription |-> [i |-> estatisticas.total_palavras]])
    \o DictRow([timestamp |-> [s |-> LabelPorMinuto],
                transcription |-> [q |-> estatisticas.palavras_por_minuto]])
    \o DictRow([timestamp |-> [s |-> LabelPercentual],
                transcription |-> [q |-> estatisticas.percentual_magicas]])

\* lines 78-79: one row per entry of palavras_ordenadas
RECURSIVE FrequencyRows(_)
FrequencyRows(palavras_ordenadas) ==
    IF palavras_ordenadas = <<>> THEN <<>>
    ELSE DictRow([timestamp |-> [s |-> Head(palavras_ordenadas)[1]],
                  transcription |-> [i |-> Head(palavras_ordenadas)[2]]])
         \o FrequencyRows(Tail(palavras_ordenadas))

\* the contents generate_csv leaves in the file at output_csv_path
CsvContents(transcribed_segments, estatisticas) ==
    HeaderRow
    \o SegmentRows(transcribed_segments)
    \o StatisticsRows(estatisticas)
    \o FrequencyRows(estatisticas.palavras_ordenadas)

\* file |-> contents added to the files, replacing what the path held
WriteFile(fs, path, contents) ==
    [p \in DOMAIN fs \cup {path} |-> IF p = path THEN contents ELSE fs[p]]

\* generate_csv opens the path for writing, which empties the file, and writes
\* the rows; the file is closed when the with block ends
generate_csv(fs, transcribed_segments, estatisticas, output_csv_path) ==
    WriteFile(fs, output_csv_path, CsvContents(transcribed_segments, estatisticas))

\* the segments tried: float starts as Whisper gives them and an int start, texts
\* with outer whitespace, a comma, quotes, a line break, and an empty text
SegmentChoices == {
    [start |-> [float |-> TRUE, milli |-> 0],
     text  |-> <<" ", "B", "o", "m", " ", "d", "i", "a", " ">>],
    [start |-> [float |-> TRUE, milli |-> 1500],
     text  |-> <<"o", "b", "r", "i", "g", "a", "d", "o", ",", " ", "e", " ", "\"", "o'",
                 "t", "i", "m", "o", "\"">>],
    [start |-> [float |-> TRUE, milli |-> 61000],
     text  |-> <<"l", "i", "n", "h", "a", " ", "u", "m", "\n", "l", "i", "n", "h", "a", " ",
                 "d", "o", "i", "s">>],
    [start |-> [float |-> TRUE, milli |-> 75250], text |-> <<" ">>],
    [start |-> [float |-> FALSE, milli |-> 3600000], text |-> <<"r", "u", "i", "m">>] }

MaxSegments == 2

SegmentSeqs == UNION { [1..n -> SegmentChoices] : n \in 0..MaxSegments }

\* the statistics tried with a segment sequence: those of its own formatted
\* transcript, for two durations, and those of an unrelated text
StatisticsChoices(segments) ==
    { calcular_estatisticas(format_transcription(segments), d) :
        d \in {<<3, 2, TRUE>>, <<7, 1, TRUE>>} }
    \cup { calcular_estatisticas(Concat(<<StatsPieces[1], StatsPieces[1], StatsPieces[4]>>),
                                  <<1, 1, TRUE>>) }

CsvPath == <<"uploads/", "report.csv">>

CsvCalls ==
    UNION { { [op |-> "generate_csv", transcribed_segments |-> segs, estatisticas |-> e,
               output_csv_path |-> CsvPath] : e \in StatisticsChoices(segs) } :
            segs \in SegmentSeqs }

InitCsv == call \in CsvCalls /\ ret = NoValue /\ NoService

GenerateCsv ==
    /\ call.op = "generate_csv"
    /\ ret = NoValue
    /\ files' = generate_csv(files, call.transcribed_segments, call.estatisticas,
                             call.output_csv_path)
    /\ ret' = Value("None")
    /\ UNCHANGED <<call, req, now>>

NextCsv == GenerateCsv

SpecCsv == InitCsv /\ [][NextCsv]_vars

\* csv.reader over the characters of a file: the rows, each the list of its
\* fields.  The reader's state is the rows read, the row and the field under way
\* and its mode: at the start of a record or of a field, in a plain field, in a
\* quoted field, after a quote met in a quoted field, or after a "\r" that ended
\* a record.
ReaderStart == [mode |-> "start_record", field |-> <<>>, row |-> <<>>, rows |-> <<>>]

ReaderEndRecord(st, c) ==
    [mode  |-> IF c = "\r" THEN "after_cr" ELSE "start_record",
     field |-> <<>>, row |-> <<>>,
     rows  |-> Append(st.rows, IF st.mode = "start_record" THEN <<>>
                               ELSE Append(st.row, st.field))]

ReaderStep(st, c) ==
    IF st.mode = "quoted"
    THEN (IF c = "\"" THEN [st EXCEPT !.mode = "quote_in_quoted"]
          ELSE [st EXCEPT !.field = Append(@, c)])
    ELSE IF st.mode = "quote_in_quoted" /\ c = "\""
    THEN [st EXCEPT !.mode = "quoted", !.field = Append(@, c)]
    ELSE IF st.mode = "after_cr"
    THEN (IF c = "\n" THEN [st EXCEPT !.mode = "start_record"]
          ELSE IF c = "\r" THEN ReaderEndRecord([st EXCEPT !.mode = "start_record"], c)
          ELSE IF c = "," THEN [st EXCEPT !.mode = "start_field", !.row = Append(@, <<>>)]
          ELSE IF c = "\"" THEN [st EXCEPT !.mode = "quoted"]
          ELSE [st EXCEPT !.mode = "in_field", !.field = <<c>>])
    ELSE IF c \in {"\r", "\n"} THEN ReaderEndRecord(st, c)
    ELSE IF c = ","
    THEN [st EXCEPT !.mode = "start_field", !.field = <<>>, !.row = Append(@, st.field)]
    ELSE IF c = "\"" /\ st.mode \in {"start_record", "start_field"}
    THEN [st EXCEPT !.mode = "quoted"]
    ELSE [st EXCEPT !.mode = "in_field", !.field = Append(@, c)]

\* the reader's state after text[lo..hi]: the first half is read, then the
\* second half from the state the first half left (the test on half makes TLC
\* compute the first half before it starts on the second)
RECURSIVE ReaderRun(_, _, _, _)
ReaderRun(st, text, lo, hi) ==
    IF lo > hi THEN st
    ELSE IF lo = hi THEN ReaderStep(st, text[lo])
    ELSE LET mid  == (lo + hi) \div 2
             half == ReaderRun(st, text, lo, mid)
         IN  IF half.mode = "quoted" THEN ReaderRun(half, text, mid + 1, hi)
             ELSE ReaderRun(half, text, mid + 1, hi)

ReadCsv(text) ==
    LET st == ReaderRun(ReaderStart, text, 1, Len(text))
    IN  IF st.mode \in {"start_record", "after_cr"} THEN st.rows
        ELSE Append(st.rows, Append(st.row, st.field))

BlankRow == << <<>>, <<>> >>

\* the lines "timestamp transcription", a blank line after each, as
\* format_transcription joins them, for rows of (timestamp, transcription)
RECURSIVE JoinPairs(_)
JoinPairs(rows) ==
    IF rows = <<>> THEN <<>>
    ELSE Head(rows)[1] \o <<" ">> \o Head(rows)[2] \o <<"\n", "\n">> \o JoinPairs(Tail(rows))

GeneratedCsv == Returned("generate_csv")

\* C2: the file generate_csv wrote reads back as: the header; one row per segment,
\* (its timestamp, its stripped text), in the segments' order; a blank row;
\* the four statistics rows; one (word, count) row per entry of the frequency
\* table, in its order.  The rows between the header and the first blank row
\* are the pairs format_transcription emits, in the same order.
C2_ReportLayout ==
    GeneratedCsv =>
        LET segs  == call.transcribed_segments
            stats == call.estatisticas
            po    == stats.palavras_ordenadas
            N     == Len(segs)
            rows  == ReadCsv(files[call.output_csv_path])
            blank == CHOOSE k \in 2..Len(rows) :
                        rows[k] = BlankRow /\ \A j \in 2..(k - 1) : rows[j] # BlankRow
        IN  /\ Len(rows) = N + 6 + Len(po)
            /\ rows[1] = <<HeaderTimestamp, HeaderTranscription>>
            /\ \A i \in 1..N :
                   rows[1 + i] = <<format_timestamp(Times1000(segs[i].start)), Strip(segs[i].text)>>
            /\ rows[N + 2] = BlankRow
            /\ blank = N + 2
            /\ rows[N + 3] = <<LabelEstatisticas, <<>> >>
            /\ rows[N + 4] = <<LabelTotal, IntStr(stats.total_palavras)>>
            /\ rows[N + 5] = <<LabelPorMinuto, QuotientStr(stats.palavras_por_minuto)>>
            /\ rows[N + 6] = <<LabelPercentual, QuotientStr(stats.percentual_magicas)>>
            /\ \A k \in 1..Len(po) : rows[N + 6 + k] = <<po[k][1], IntStr(po[k][2])>>
            /\ Strip(JoinPairs(SubSeq(rows, 2, blank - 1))) = format_transcription(segs)

\* two segments, one with a text the writer has to quote, and a frequency table
C2_Witness ==
    /\ GeneratedCsv
    /\ Len(call.transcribed_segments) = 2
    /\ \E i \in 1..2 : \E c \in 1..Len(call.transcribed_segments[i].text) :
           call.transcribed_segments[i].text[c] \in CsvSpecial
    /\ Len(call.estatisticas.palavras_ordenadas) >= 2
    /\ Len(ReadCsv(files[call.output_csv_path])) = 8 + Len(call.estatisticas.palavras_ordenadas)

-----------------------------------------------------------------------------
(* upload_audio, wise.py 101-134, and download_file, 136-139               *)

\* The collaborators.  An uploaded audio is one of Audios: AudioSegment gives its
\* length in milliseconds (len(audio)), Whisper its segments.  The same audio
\* always decodes and transcribes the same way.
Audios == <<
    [length |-> 90000,
     segments |-> << [start |-> [float |-> TRUE, milli |-> 0],
                      text  |-> <<" ", "B", "o", "m", " ", "d", "i", "a", " ">>],
                     [start |-> [float |-> TRUE, milli |-> 61500],
                      text  |-> <<" ", "o", "b", "r", "i", "g", "a", "d", "o", " ", "e", " ",
                                  "o'", "t", "i", "m", "o">>] >>],
    [length |-> 30000,
     segments |-> << [start |-> [float |-> TRUE, milli |-> 0],
                      text  |-> <<" ", "r", "u", "i", "m">>] >>],
    [length |-> 1500,
     segments |-> << [start |-> [float |-> TRUE, milli |-> 0], text |-> <<" ">>] >>],
    [length |-> 0, segments |-> <<>>] >>

Filenames == {"a.mp3", "b.mp3"}

\* os.path.join(app.config['UPLOAD_FOLDER'], ...)
UploadPath(filename) == <<"uploads/", filename>>
ConvertedPath == <<"uploads/", "converted.wav">>
\* f"transcription_{datetime.now().strftime('%Y%m%d%H%M%S')}.csv": one name a second
ReportPath(t) == <<"uploads/", "transcription_", t, ".csv">>

\* transcribe_audio_whisper(whisper_model, audio_path), wise.py 57-59
transcribe_audio_whisper(fs, audio_path) == Audios[fs[audio_path].audio].segments

\* how far datetime.now() advances
MaxClock == 1

InitService ==
    /\ NoCall
    /\ files = NoFiles
    /\ req = [r \in Requests |-> NoRequest]
    /\ now = 0

Set(r, fields) == req' = [req EXCEPT ![r] = fields]

\* a GET: the page with no results (line 134)
Get(r) ==
    /\ req[r].pc = "idle"
    /\ Set(r, [pc |-> "done", method |-> "GET",
               response |-> [page |-> TRUE, formatted_transcription |-> <<>>,
                             sentimento |-> "N/A", output_csv_path |-> <<>>]])
    /\ UNCHANGED <<call, ret, files, now>>

\* a POST without a file, or with an empty file name: redirect('/') (line 132)
PostNoFile(r) ==
    /\ req[r].pc = "idle"
    /\ Set(r, [pc |-> "done", method |-> "POST", response |-> [redirect |-> "/"]])
    /\ UNCHANGED <<call, ret, files, now>>

\* a POST with a file: lines 103-106
Post(r) ==
    /\ req[r].pc = "idle"
    /\ \E a \in 1..Len(Audios), name \in Filenames :
          Set(r, [pc |-> "save", method |-> "POST", upload |-> a, filename |-> name,
                  filepath |-> UploadPath(name)])
    /\ UNCHANGED <<call, ret, files, now>>

\* file.save(filepath), line 107
SaveUpload(r) ==
    /\ req[r].pc = "save"
    /\ files' = WriteFile(files, req[r].filepath, [audio |-> req[r].upload])
    /\ Set(r, [req[r] EXCEPT !.pc = "from_file"])
    /\ UNCHANGED <<call, ret, now>>

\* audio = AudioSegment.from_file(filepath), line 110
FromFile(r) ==
    /\ req[r].pc = "from_file"
    /\ Set(r, [pc |-> "export", audio |-> files[req[r].filepath].audio] @@ req[r])
    /\ UNCHANGED <<call, ret, files, now>>

\* audio.export(converted_filepath, format="wav"), lines 111-112
Export(r) ==
    /\ req[r].pc = "export"
    /\ files' = WriteFile(files, ConvertedPath, [audio |-> req[r].audio])
    /\ Set(r, [req[r] EXCEPT !.pc = "transcribe"])
    /\ UNCHANGED <<call, ret, now>>

\* transcribed_segments = transcribe_audio_whisper(...), line 115
Transcribe(r) ==
    /\ req[r].pc = "transcribe"
    /\ Set(r, [pc |-> "analyse",
               transcribed_segments |-> transcribe_audio_whisper(files, ConvertedPath)]
              @@ req[r])
    /\ UNCHANGED <<call, ret, files, now>>

\* lines 116-123: the formatted transcript, the duration, the statistics and the
\* sentiment; an exception of calcular_estatisticas ends the request
Analyse(r) ==
    /\ req[r].pc = "analyse"
    /\ LET formatted_transcription == format_transcription(req[r].transcribed_segments)
           duracao_minutos == <<Audios[req[r].audio].length, 1000 * 60, TRUE>>
           estatisticas == calcular_estatisticas(formatted_transcription, duracao_minutos)
       IN  IF Raised(estatisticas)
           THEN Set(r, [pc |-> "failed", exception |-> estatisticas.raised] @@ req[r])
           ELSE Set(r, [pc |-> "generate_csv",
                        formatted_transcription |-> formatted_transcription,
                        duracao_minutos |-> duracao_minutos,
                        estatisticas |-> estatisticas,
                        sentimento |-> analisar_sentimento(formatted_transcription)]
                       @@ req[r])
    /\ UNCHANGED <<call, ret, files, now>>

\* lines 126-130: the report is written under the name of the current second
\* and the page is rendered
GenerateReport(r) ==
    /\ req[r].pc = "generate_csv"
    /\ LET output_csv_path == ReportPath(now)
       IN  /\ files' = generate_csv(files, req[r].transcribed_segments, req[r].estatisticas,
                                    output_csv_path)
           /\ Set(r, [pc |-> "done", output_csv_path |-> output_csv_path,
                      response |-> [page |-> TRUE,
                                    formatted_transcription |-> req[r].formatted_transcription,
                                    estatisticas |-> req[r].estatisticas,
                                    sentimento |-> req[r].sentimento,
                                    output_csv_path |-> output_csv_path]]
                     @@ req[r])
    /\ UNCHANGED <<call, ret, now>>

\* download_file(filename), lines 136-139: a file of the upload folder is sent
Download(r) ==
    /\ req[r].pc = "idle"
    /\ \E path \in DOMAIN files :
          Set(r, [pc |-> "done", method |-> "GET", file_path |-> path,
                  response |-> [attachment |-> files[path]]])
    /\ UNCHANGED <<call, ret, files, now>>

\* a second passes
Tick ==
    /\ now < MaxClock
    /\ now' = now + 1
    /\ UNCHANGED <<call, ret, files, req>>

\* one step of the request r
Step(r) ==
    \/ Get(r) \/ PostNoFile(r) \/ Post(r) \/ SaveUpload(r) \/ FromFile(r)
    \/ Export(r) \/ Transcribe(r) \/ Analyse(r) \/ GenerateReport(r)
    \/ Download(r)

\* The development server of app.run serves each request in a thread of its
\* own: the steps of the requests interleave.
Next == (\E r \in Requests : Step(r)) \/ Tick

Spec == InitService /\ [][Next]_vars

\* The same service run without threads: a request is served to its end before
\* the next one starts.
Serving(r) == req[r].pc \notin {"idle", "done", "failed"}

Alone(r) == \A q \in Requests \ {r} : ~Serving(q)

NextSerial ==
    \/ \E r \in Requests :
          \/ Alone(r) /\ Get(r)
          \/ Alone(r) /\ PostNoFile(r)
          \/ Alone(r) /\ Post(r)
          \/ Alone(r) /\ SaveUpload(r)
          \/ Alone(r) /\ FromFile(r)
          \/ Alone(r) /\ Export(r)
          \/ Alone(r) /\ Transcribe(r)
          \/ Alone(r) /\ Analyse(r)
          \/ Alone(r) /\ GenerateReport(r)
          \/ Alone(r) /\ Download(r)
    \/ Tick

SpecSerial == InitService /\ [][NextSerial]_vars

\* the requests that uploaded a file, and where each is
Uploading(r) == "upload" \in DOMAIN req[r]
At(r, pcs) == Uploading(r) /\ req[r].pc \in pcs

RECURSIVE WordsOfSegments(_)
WordsOfSegments(segments) ==
    IF segments = <<>> THEN 0
    ELSE Len(Split(Head(segments).text)) + WordsOfSegments(Tail(segments))

\* C6: the statistics of a request count every segment's timestamp as one word:
\* total_palavras is the number of segments plus the number of words of their
\* texts, and every segment's timestamp is a key of the frequency table.
C6_TimestampsAreCounted ==
    \A r \in Requests : At(r, {"generate_csv", "done"}) =>
        LET segs == req[r].transcribed_segments
            po   == req[r].estatisticas.palavras_ordenadas
        IN  /\ req[r].estatisticas.total_palavras = Len(segs) + WordsOfSegments(segs)
            /\ \A i \in 1..Len(segs) : \E k \in 1..Len(po) :
                   po[k][1] = format_timestamp(Times1000(segs[i].start))

\* a request has analysed two segments with five words between them
C6_Witness ==
    \E r \in Requests :
        /\ At(r, {"done"})
        /\ Len(req[r].transcribed_segments) = 2
        /\ req[r].estatisticas.total_palavras = 7

\* the report of an audio, computed from that audio alone
OwnReport(a) ==
    CsvContents(Audios[a].segments,
                calcular_estatisticas(format_transcription(Audios[a].segments),
                                      <<Audios[a].length, 1000 * 60, TRUE>>))

\* C10: whatever the interleaving, the audio a request decodes, the segments it
\* transcribes and the report at the path it returns come from its own upload.
C10_RequestsIsolated ==
    \A r \in Requests :
        /\ At(r, {"export", "transcribe", "analyse", "generate_csv", "done", "failed"})
              => req[r].audio = req[r].upload
        /\ At(r, {"analyse", "generate_csv", "done", "failed"})
              => req[r].transcribed_segments = Audios[req[r].upload].segments
        /\ At(r, {"done"})
              => files[req[r].output_csv_path] = OwnReport(req[r].upload)

====
